---- MODULE Spec2Model ----
(***************************************************************************)
(* Model of src/server.js: the voting-session state machine served over    *)
(* HTTP (start/status/results), the MQTT vote handler, the expiry timer    *)
(* and the shutdown handler.  Node runs every handler to completion on one *)
(* thread, so each handler is one atomic action.                           *)
(***************************************************************************)
EXTENDS Integers, Sequences, FiniteSets, TLC

(***************************************************************************)
(* Bounds of the model.                                                    *)
(***************************************************************************)
MaxSessions == 3      \* sessions created by POST /api/start
MaxPublished == 5     \* messages handed to aedes.publish
MaxSignals == 1       \* SIGINT/SIGTERM deliveries
MaxTicks == 2         \* seconds that pass on the clock

(***************************************************************************)
(* JavaScript values.  A value is a record [t, s]: t is its typeof, s the  *)
(* text String(value) yields.                                              *)
(***************************************************************************)
Str(s) == [t |-> "string", s |-> s]
Num(s) == [t |-> "number", s |-> s]
Undefined == [t |-> "undefined", s |-> "undefined"]

\* String(v), as options.map(String) applies it
String(v) == Str(v.s)

\* the property key an object is indexed with: ToPropertyKey(v)
ToPropertyKey(v) == v.s

\* !v for the values used here: undefined, "" , 0 and NaN are falsy
Falsy(v) ==
    \/ v.t = "undefined"
    \/ v.t = "string" /\ v.s = ""
    \/ v.t = "number" /\ v.s \in {"0", "NaN"}

(***************************************************************************)
(* Numbers: [kind, val], kind one of "finite", "nan", "inf".               *)
(***************************************************************************)
Finite(n) == [kind |-> "finite", val |-> n]
NaN == [kind |-> "nan", val |-> 0]
Infinity == [kind |-> "inf", val |-> 0]

\* the value of a numeric literal; text that is no numeric literal is NaN
NumeralValue(s) ==
    CASE s = "0" -> Finite(0)
      [] s = "" -> Finite(0)
      [] s = "1" -> Finite(1)
      [] s = "2" -> Finite(2)
      [] s = "-1" -> Finite(-1)
      [] s = "Infinity" -> Infinity
      [] OTHER -> NaN

\* Number(v)
ToNumber(v) ==
    CASE v.t = "number" -> NumeralValue(v.s)
      [] v.t = "string" -> NumeralValue(v.s)
      [] OTHER -> NaN

IsFinite(n) == n.kind = "finite"

MsPerSecond == 1000

Digit(d) ==
    CASE d = 0 -> "0" [] d = 1 -> "1" [] d = 2 -> "2" [] d = 3 -> "3"
      [] d = 4 -> "4" [] d = 5 -> "5" [] d = 6 -> "6" [] d = 7 -> "7"
      [] d = 8 -> "8" [] d = 9 -> "9"

RECURSIVE DecimalString(_)
DecimalString(n) ==
    IF n < 10 THEN Digit(n) ELSE DecimalString(n \div 10) \o Digit(n % 10)

\* 'sess_' + Date.now()
SessionId(clock) == Str("sess_" \o DecimalString(clock))

(***************************************************************************)
(* State.                                                                  *)
(***************************************************************************)
VARIABLES
    now,             \* Date.now(), in milliseconds
    currentSession,  \* Null or the session object
    timers,          \* pending setTimeout callbacks: [h, due]
    effects,         \* every aedes.publish and every close() call, in order
    open,            \* transports not yet closed
    nSessions,       \* session objects created so far
    nSignals,        \* signals delivered so far
    reply            \* what the last step answered: HTTP response or cb() calls

vars == <<now, currentSession, timers, effects, open, nSessions, nSignals,
          reply>>

Null == [null |-> TRUE]
NullTimer == 0
Transports == <<"tcpServer", "wss", "httpServer", "aedes">>

\* reply: the HTTP response of the last step (route, status, body), or the
\* number of times the vote handler called cb and the branch it took
NoReply == [kind |-> "none", via |-> "", status |-> 0, body |-> Null, acks |-> 0]
HttpReply(route, status, body) ==
    [kind |-> "http", via |-> route, status |-> status, body |-> body, acks |-> 0]
AckReply(branch, n) ==
    [kind |-> "ack", via |-> branch, status |-> 0, body |-> Null, acks |-> n]

EmptyObject == [k \in {} |-> 0]

Range(seq) == {seq[i] : i \in 1..Len(seq)}

\* newTally: t[o] = 0 for each option.  Assigning a number to the key
\* "__proto__" of an object literal sets no own property.
newTally(options) ==
    [k \in {ToPropertyKey(o) : o \in Range(options)} \ {"__proto__"} |-> 0]

\* the message aedes.publish receives: topic plus the JSON.stringify
\* snapshot of the object; obj is the identity of the session object the
\* message was built from (not part of the payload)
Message(topic, type, s, reason, withTally, total) ==
    [call |-> "publish", topic |-> topic, type |-> type, sessionId |-> s.id, obj |-> s.obj,
     options |-> IF type = "started" THEN s.options ELSE <<>>,
     endAt |-> IF type = "started" THEN s.endAt ELSE 0,
     reason |-> reason,
     tally |-> IF withTally THEN s.tally ELSE EmptyObject,
     totalVotes |-> total]

\* the event loop takes the next event once the last answer has gone out
Idle == reply = NoReply

Published == SelectSeq(effects, LAMBDA e : e.call = "publish")

\* the model follows the program until MaxPublished messages are out
CanPublish == Len(Published) < MaxPublished

Init ==
    /\ now = 0
    /\ currentSession = Null
    /\ timers = {}
    /\ effects = <<>>
    /\ open = Range(Transports)
    /\ nSessions = 0
    /\ nSignals = 0
    /\ reply = NoReply

(***************************************************************************)
(* POST /api/start                                                         *)
(***************************************************************************)
\* the array literals and non-arrays a request body may carry as options
ArrayOf(items) == [isArray |-> TRUE, items |-> items]
NotAnArray == [isArray |-> FALSE, items |-> <<>>]

ShortOptionInputs == {NotAnArray, ArrayOf(<<>>), ArrayOf(<<Str("A")>>)}

LongOptionInputs ==
    { ArrayOf(<<Str("A"), Str("B")>>),
      ArrayOf(<<Str("A"), Str("A"), Str("__proto__")>>) }

DurationInputs ==
    { Num("1"), Num("2"), Str("1"), Num("0"), Num("-1"), Num("Infinity"),
      Undefined }

OptionsRejected(options) == ~options.isArray \/ Len(options.items) < 2

\* mutant of DurationRejected: the test dur <= 0 is left out
DurationRejected_FiniteOnly(dur) == ~IsFinite(dur)

DurationRejected(dur) == ~IsFinite(dur) \/ dur.val <= 0

NewSession(dur, options) ==
    [id |-> SessionId(now),
     options |-> [i \in 1..Len(options.items) |-> String(options.items[i])],
     endAt |-> now + dur.val * MsPerSecond,
     active |-> TRUE,
     votes |-> EmptyObject,
     tally |-> newTally(options.items),
     timer |-> nSessions + 1,
     obj |-> nSessions + 1]

StartSession(durationSeconds, options) ==
    /\ Idle
    /\ "httpServer" \in open
    /\ IF OptionsRejected(options)
       THEN /\ reply' = HttpReply("start", 400, [error |-> "options must be an array with at least 2 entries"])
            /\ UNCHANGED <<now, currentSession, timers, effects, open,
                           nSessions, nSignals>>
       ELSE LET dur == ToNumber(durationSeconds) IN
            IF DurationRejected(dur)
            THEN /\ reply' = HttpReply("start", 400, [error |-> "durationSeconds must be a positive number"])
                 /\ UNCHANGED <<now, currentSession, timers, effects, open,
                                nSessions, nSignals>>
            ELSE LET s == NewSession(dur, options) IN
                 /\ nSessions < MaxSessions
                 /\ CanPublish
                 /\ currentSession' = s
                 /\ timers' = timers \cup {[h |-> s.timer, due |-> now + dur.val * MsPerSecond]}
                 /\ effects' = Append(effects,
                        Message("voting/session", "started", s, "", FALSE, 0))
                 /\ nSessions' = nSessions + 1
                 /\ reply' = HttpReply("start", 200, [ok |-> TRUE, sessionId |-> s.id,
                                   endAt |-> s.endAt, options |-> s.options])
                 /\ UNCHANGED <<now, open, nSignals>>

\* request bodies: every duration with every list long enough to reach the
\* duration check, and the lists that are rejected before it
BodyInputs ==
    {[durationSeconds |-> d, options |-> o] :
        d \in DurationInputs, o \in LongOptionInputs}
    \cup {[durationSeconds |-> d, options |-> o] :
        d \in {Num("1"), Undefined}, o \in ShortOptionInputs}

ApiStart == \E b \in BodyInputs : StartSession(b.durationSeconds, b.options)

(***************************************************************************)
(* endSession(reason): what it leaves in currentSession, in the pending    *)
(* timers and in the effects, given the timers pending when it is called.  *)
(***************************************************************************)
\* mutant of endSession: the test for a current session is left out
endSession_Unguarded(reason, pending) ==
    LET s == IF currentSession = Null
             THEN [id |-> Undefined, obj |-> 0, tally |-> EmptyObject,
                   timer |-> NullTimer, active |-> TRUE]
             ELSE currentSession
    IN  [session |-> [s EXCEPT !.timer = NullTimer, !.active = FALSE],
         timers |-> {t \in pending : t.h # s.timer},
         effects |-> Append(effects,
             Message("voting/session", "ended", s, reason, TRUE, 0))]

endSession(reason, pending) ==
    IF currentSession = Null
    THEN [session |-> Null, timers |-> pending, effects |-> effects]
    ELSE [session |-> [currentSession EXCEPT !.timer = NullTimer, !.active = FALSE],
          \* clearTimeout(currentSession.timer), when the handle is not null
          timers |-> {t \in pending : t.h # currentSession.timer},
          effects |-> Append(effects,
              Message("voting/session", "ended", currentSession, reason,
                      TRUE, 0))]

\* Node runs expired timers in the order of their expiry, and timers of one
\* expiry in the order they were armed
FiresFirst(t, pending) ==
    \A u \in pending : u.due > t.due \/ (u.due = t.due /\ u.h >= t.h)

\* the callback of a setTimeout armed at line 82 runs: endSession('time_up')
TimerFire ==
    \E t \in timers :
        /\ Idle
        /\ now >= t.due
        /\ FiresFirst(t, timers)
        /\ currentSession = Null \/ CanPublish
        /\ LET r == endSession("time_up", timers \ {t}) IN
           /\ currentSession' = r.session
           /\ timers' = r.timers
           /\ effects' = r.effects
        /\ reply' = NoReply
        /\ UNCHANGED <<now, open, nSessions, nSignals>>

(***************************************************************************)
(* shutdown(), on SIGINT or SIGTERM                                        *)
(***************************************************************************)
Close(server) ==
    [call |-> "close", topic |-> server, type |-> "", sessionId |-> Str(""),
     obj |-> 0, options |-> <<>>, endAt |-> 0, reason |-> "",
     tally |-> EmptyObject, totalVotes |-> 0]

\* mutant of shutdown: the transports are closed before the session is ended
shutdown_CloseFirst ==
    /\ Idle
    /\ nSignals < MaxSignals
    /\ currentSession = Null \/ CanPublish
    /\ LET r == endSession("shutdown", timers) IN
       /\ currentSession' = r.session
       /\ timers' = r.timers
       /\ effects' = effects \o [i \in 1..Len(Transports) |-> Close(Transports[i])]
                        \o SubSeq(r.effects, Len(effects) + 1, Len(r.effects))
    /\ open' = {}
    /\ nSignals' = nSignals + 1
    /\ reply' = NoReply
    /\ UNCHANGED <<now, nSessions>>

shutdown ==
    /\ Idle
    /\ nSignals < MaxSignals
    /\ currentSession = Null \/ CanPublish
    /\ LET r == endSession("shutdown", timers) IN
       /\ currentSession' = r.session
       /\ timers' = r.timers
       /\ effects' = r.effects \o [i \in 1..Len(Transports) |-> Close(Transports[i])]
    /\ open' = {}
    /\ nSignals' = nSignals + 1
    /\ reply' = NoReply
    /\ UNCHANGED <<now, nSessions>>

(***************************************************************************)
(* GET /api/status, GET /api/results                                       *)
(***************************************************************************)
StatusBody ==
    IF currentSession = Null THEN [active |-> FALSE]
    ELSE [sessionId |-> currentSession.id, options |-> currentSession.options,
          endAt |-> currentSession.endAt, active |-> currentSession.active,
          tally |-> currentSession.tally]

ResultsBody ==
    IF currentSession = Null THEN [active |-> FALSE, tally |-> EmptyObject]
    ELSE [sessionId |-> currentSession.id, active |-> currentSession.active,
          tally |-> currentSession.tally]

\* mutant of GetStatus: a status request closes a session that is past its endAt
GetStatus_ClosesExpired ==
    /\ Idle
    /\ "httpServer" \in open
    /\ reply' = HttpReply("status", 200, StatusBody)
    /\ currentSession' =
          IF currentSession # Null /\ now >= currentSession.endAt
          THEN [currentSession EXCEPT !.active = FALSE]
          ELSE currentSession
    /\ UNCHANGED <<now, timers, effects, open, nSessions, nSignals>>

GetStatus ==
    /\ Idle
    /\ "httpServer" \in open
    /\ reply' = HttpReply("status", 200, StatusBody)
    /\ UNCHANGED <<now, currentSession, timers, effects, open, nSessions,
                   nSignals>>

GetResults ==
    /\ Idle
    /\ "httpServer" \in open
    /\ reply' = HttpReply("results", 200, ResultsBody)
    /\ UNCHANGED <<now, currentSession, timers, effects, open, nSessions,
                   nSignals>>

(***************************************************************************)
(* aedes.subscribe('voting/vote', (packet, cb) => ...)                     *)
(***************************************************************************)
\* a packet payload: text that is no JSON, the JSON null, or a JSON object
\* whose members are JavaScript values (Undefined: the member is absent)
Malformed ==
    [json |-> "malformed", sessionId |-> Undefined, deviceId |-> Undefined,
     choice |-> Undefined]
JsonNull ==
    [json |-> "null", sessionId |-> Undefined, deviceId |-> Undefined,
     choice |-> Undefined]
JsonObject(sessionId, deviceId, choice) ==
    [json |-> "object", sessionId |-> sessionId, deviceId |-> deviceId,
     choice |-> choice]

\* the ids a session can get on the model's clock
SessionIds == {SessionId(k * MsPerSecond) : k \in 0..MaxTicks}
DeviceIdInputs == {Str("dev1"), Str("dev2")}
BadDeviceIdInputs == {Str(""), Num("7"), Undefined}
ChoiceInputs == {Str("A"), Str("B"), Str("__proto__")}

\* the payloads delivered: no JSON, null, every vote of a device, and votes
\* without a usable session id, device id or choice
PayloadInputs ==
    {Malformed, JsonNull}
    \cup {JsonObject(s, d, c) :
            s \in SessionIds, d \in DeviceIdInputs, c \in ChoiceInputs}
    \cup {JsonObject(s, d, Str("A")) : s \in SessionIds, d \in BadDeviceIdInputs}
    \cup {JsonObject(s, Str("dev1"), Undefined) : s \in SessionIds}
    \cup {JsonObject(Undefined, Str("dev1"), Str("A"))}

\* JSON.parse(packet.payload.toString()) throws
ParseThrows(payload) == payload.json = "malformed"

\* const { sessionId, deviceId, choice } = data || {}
Destructure(payload) ==
    IF payload.json = "object" THEN payload
    ELSE JsonObject(Undefined, Undefined, Undefined)

\* mutant of Rejected: the test of the active flag is left out
Rejected_IgnoresActive(data) ==
    \/ currentSession = Null
    \/ data.sessionId # currentSession.id
    \/ Falsy(data.deviceId)
    \/ data.deviceId.t # "string"
    \/ data.choice \notin Range(currentSession.options)

\* mutant of Rejected: the test of choice against the options is left out
Rejected_AnyChoice(data) ==
    \/ currentSession = Null
    \/ ~currentSession.active
    \/ data.sessionId # currentSession.id
    \/ Falsy(data.deviceId)
    \/ data.deviceId.t # "string"

\* one of the four early returns of lines 115-118 is taken
Rejected(data) ==
    \/ currentSession = Null
    \/ ~currentSession.active
    \/ data.sessionId # currentSession.id
    \/ Falsy(data.deviceId)
    \/ data.deviceId.t # "string"
    \/ data.choice \notin Range(currentSession.options)

\* currentSession.tally[choice] = (currentSession.tally[choice] || 0) + 1.
\* Under the key "__proto__" the read yields the prototype object and the
\* assignment of the resulting string is dropped: no own property changes.
Increment(tally, key) ==
    IF key = "__proto__" THEN tally
    ELSE IF key \in DOMAIN tally /\ tally[key] # 0
         THEN [tally EXCEPT ![key] = @ + 1]
         ELSE [k \in DOMAIN tally \cup {key} |-> IF k = key THEN 1 ELSE tally[k]]

\* mutant of Has: no participant is ever found in the ledger
Has_Never(votes, deviceId) == FALSE

\* currentSession.votes.has(deviceId)
Has(votes, deviceId) == deviceId \in DOMAIN votes

\* lines 121-122: the session with the vote recorded
Admit(session, deviceId, choice) ==
    [session EXCEPT
        !.votes = [d \in DOMAIN session.votes \cup {deviceId} |->
                      IF d = deviceId THEN choice ELSE session.votes[d]],
        !.tally = Increment(session.tally, ToPropertyKey(choice))]

VoteHandler(payload) ==
    /\ Idle
    /\ "aedes" \in open
    /\ IF ParseThrows(payload)
       THEN \* catch, then finally: cb()
            /\ reply' = AckReply("catch", 1)
            /\ UNCHANGED <<currentSession, effects>>
       ELSE LET data == Destructure(payload) IN
            IF Rejected(data)
            THEN \* return cb(), then finally: cb()
                 /\ reply' = AckReply("return", 2)
                 /\ UNCHANGED <<currentSession, effects>>
            ELSE IF ~Has(currentSession.votes, data.deviceId)
            THEN LET s == Admit(currentSession, data.deviceId, data.choice) IN
                 /\ CanPublish
                 /\ currentSession' = s
                 /\ effects' = Append(effects,
                        Message("voting/tally", "", s, "", TRUE,
                                Cardinality(DOMAIN s.votes)))
                 /\ reply' = AckReply("admit", 1)
            ELSE /\ reply' = AckReply("duplicate", 1)
                 /\ UNCHANGED <<currentSession, effects>>
    /\ UNCHANGED <<now, timers, open, nSessions, nSignals>>

Vote == \E p \in PayloadInputs : VoteHandler(p)

\* a second passes.  The clock is followed from the first session on: what
\* happens before it is the same behaviour started later.
Tick ==
    /\ Idle
    /\ now < MaxTicks * MsPerSecond
    /\ currentSession # Null
    /\ now' = now + MsPerSecond
    /\ reply' = NoReply
    /\ UNCHANGED <<currentSession, timers, effects, open, nSessions, nSignals>>

\* the HTTP response is sent, or the broker takes the acknowledgement
Deliver ==
    /\ reply # NoReply
    /\ reply' = NoReply
    /\ UNCHANGED <<now, currentSession, timers, effects, open, nSessions, nSignals>>

Next ==
    \/ ApiStart
    \/ GetStatus
    \/ GetResults
    \/ Vote
    \/ TimerFire
    \/ shutdown
    \/ Tick
    \/ Deliver

Spec == Init /\ [][Next]_vars

(***************************************************************************)
(* Vocabulary of the properties.                                           *)
(***************************************************************************)
HasSession == currentSession # Null

\* ledger entries of session s whose value is option o
LedgerCount(s, o) == Cardinality({d \in DOMAIN s.votes : s.votes[d] = o})

RECURSIVE SumOver(_, _)
SumOver(f, keys) ==
    IF keys = {} THEN 0
    ELSE LET k == CHOOSE x \in keys : TRUE IN f[k] + SumOver(f, keys \ {k})

\* sum of all counts of a tally
TallySum(tally) == SumOver(tally, DOMAIN tally)

IsStarted(m) == m.topic = "voting/session" /\ m.type = "started"
IsEnded(m) == m.topic = "voting/session" /\ m.type = "ended"
IsTally(m) == m.topic = "voting/tally"

\* positions in Published of the 'ended' messages built from session object o
EndedOf(o) == {i \in 1..Len(Published) : IsEnded(Published[i]) /\ Published[i].obj = o}

(***************************************************************************)
(* C1: with a current session, tally[o] is the number of ledger entries    *)
(* whose value is o, for every option o, the counts sum to the ledger      *)
(* size, and every published tally message carries counts that sum to its  *)
(* totalVotes.                                                             *)
(***************************************************************************)
C1_TallyMatchesLedger ==
    /\ HasSession =>
        /\ \A o \in Range(currentSession.options) :
              /\ ToPropertyKey(o) \in DOMAIN currentSession.tally
              /\ currentSession.tally[ToPropertyKey(o)] = LedgerCount(currentSession, o)
        /\ TallySum(currentSession.tally) = Cardinality(DOMAIN currentSession.votes)
    /\ \A i \in 1..Len(Published) :
          IsTally(Published[i]) => TallySum(Published[i].tally) = Published[i].totalVotes

C2_Duplicate(p) ==
    /\ HasSession
    /\ currentSession.active
    /\ p.json = "object"
    /\ p.sessionId = currentSession.id
    /\ p.deviceId \in DOMAIN currentSession.votes

(***************************************************************************)
(* C2: first vote wins.  A vote handled while the session is active, for   *)
(* the session's id, from a participant already in the ledger, changes     *)
(* neither the ledger nor the tally and publishes nothing.                 *)
(***************************************************************************)
C2_FirstVoteWins ==
    [][reply'.kind = "ack" =>
          \A p \in PayloadInputs :
              C2_Duplicate(p) /\ VoteHandler(p)
                  => currentSession' = currentSession /\ effects' = effects]_vars

\* a duplicate was just handled for a participant whose vote is recorded
C2_Witness ==
    /\ reply.via = "duplicate"
    /\ HasSession
    /\ currentSession.votes # EmptyObject

(***************************************************************************)
(* C3: 'ended' is published at most once per session.                      *)
(***************************************************************************)
C3_EndedAtMostOnce ==
    \A o \in 1..nSessions : Cardinality(EndedOf(o)) <= 1

(***************************************************************************)
(* C4: no tally message carrying a session id is published after the      *)
(* 'ended' message carrying that session id.                               *)
(***************************************************************************)
C4_NoTallyAfterEnded ==
    \A i, j \in 1..Len(Published) :
        i < j /\ IsEnded(Published[i]) /\ IsTally(Published[j])
            => Published[j].sessionId # Published[i].sessionId

C5_Inapplicable(p) ==
    LET data == Destructure(p) IN
    \/ ~HasSession
    \/ ~currentSession.active
    \/ data.sessionId # currentSession.id
    \/ data.deviceId = Undefined
    \/ data.deviceId.t # "string"
    \/ \A i \in 1..Len(currentSession.options) : currentSession.options[i] # data.choice

(***************************************************************************)
(* C5: a vote whose choice is not an option of the current session, whose  *)
(* sessionId is not the current session's id, that finds no session or a   *)
(* closed one, or whose participantId is absent or no string, changes      *)
(* neither ledger nor tally and publishes nothing.                         *)
(***************************************************************************)
C5_InvalidVoteIgnored ==
    [][reply'.kind = "ack" =>
          \A p \in PayloadInputs :
              C5_Inapplicable(p) /\ VoteHandler(p)
                  => currentSession' = currentSession /\ effects' = effects]_vars

\* a vote was just turned away by an active session that already holds votes
C5_Witness ==
    /\ reply.via = "return"
    /\ HasSession
    /\ currentSession.active
    /\ currentSession.votes # EmptyObject

C6_Superseded(i, j) ==
    /\ i < j
    /\ IsStarted(Published[i])
    /\ IsStarted(Published[j])
    /\ Published[j].obj = Published[i].obj + 1
    /\ \A k \in EndedOf(Published[i].obj) : k > j

(***************************************************************************)
(* C6: once a second session has been started while the first was active,  *)
(* its 'started' message is out, GetStatus shows the latest session only,  *)
(* and no later vote carrying the first session's id is tallied.           *)
(***************************************************************************)
C6_SecondSessionOnly ==
    \A i, j \in 1..Len(Published) :
        C6_Superseded(i, j) =>
            /\ HasSession
            /\ currentSession.obj = Published[j].obj =>
                  /\ StatusBody.sessionId = Published[j].sessionId
                  /\ StatusBody.options = Published[j].options
            /\ \A k \in 1..Len(Published) :
                  k > j /\ IsTally(Published[k])
                      => Published[k].sessionId # Published[i].sessionId

(***************************************************************************)
(* C7: the vote handler calls cb exactly once for every delivered packet.  *)
(***************************************************************************)
C7_AckExactlyOnce == reply.kind = "ack" => reply.acks = 1

C8_Expired ==
    /\ HasSession
    /\ nSignals = 0
    /\ now >= currentSession.endAt
    /\ \A t \in timers : t.h # currentSession.obj

(***************************************************************************)
(* C8: a session that was neither ended from outside nor superseded is,    *)
(* once its duration has elapsed and its timer is no longer pending,       *)
(* inactive, reported inactive by GetStatus, and has had exactly one       *)
(* 'ended' message, with reason 'time_up' and the session's tally.         *)
(***************************************************************************)
C8_TimeUpOnce ==
    C8_Expired =>
        /\ ~currentSession.active
        /\ StatusBody.active = FALSE
        /\ Cardinality(EndedOf(currentSession.obj)) = 1
        /\ \A i \in EndedOf(currentSession.obj) :
              /\ Published[i].reason = "time_up"
              /\ Published[i].tally = currentSession.tally

(***************************************************************************)
(* C9: every session gets an id no earlier session had.                    *)
(***************************************************************************)
C9_UniqueIds ==
    \A i, j \in 1..Len(Published) :
        i < j /\ IsStarted(Published[i]) /\ IsStarted(Published[j])
            => Published[i].sessionId # Published[j].sessionId

C10_Invalid(b) ==
    \/ ~b.options.isArray
    \/ Len(b.options.items) < 2
    \/ ToNumber(b.durationSeconds).kind # "finite"
    \/ ToNumber(b.durationSeconds).val <= 0

(***************************************************************************)
(* C10: a start request with fewer than 2 options, or whose duration       *)
(* Number(durationSeconds) is not a finite positive number, is answered    *)
(* with an error and changes nothing: session, timers and published        *)
(* messages stay as they were.                                             *)
(***************************************************************************)
C10_InvalidStartRejected ==
    [][reply'.via = "start" =>
          \A b \in BodyInputs :
              C10_Invalid(b) /\ StartSession(b.durationSeconds, b.options)
                  => /\ reply'.status = 400
                     /\ UNCHANGED <<currentSession, timers, effects, nSessions>>]_vars

\* a start request was just refused while a session was running
C10_Witness ==
    /\ reply.via = "start"
    /\ reply.status = 400
    /\ HasSession
    /\ currentSession.active
    /\ timers # {}

\* the keys the tally of a session with these options is to have
OptionKeys(options) == {ToPropertyKey(o) : o \in Range(options)}

(***************************************************************************)
(* C11: with a current session, the keys of the tally are exactly the      *)
(* session's options; right after a successful start every count is 0 and  *)
(* the status shows active = true and the options of the start.            *)
(***************************************************************************)
C11_TallyKeysAreOptions ==
    HasSession =>
        /\ DOMAIN currentSession.tally = OptionKeys(currentSession.options)
        /\ reply.via = "start" /\ reply.status = 200 =>
              /\ \A k \in DOMAIN currentSession.tally : currentSession.tally[k] = 0
              /\ \A k \in OptionKeys(currentSession.options) :
                    k \in DOMAIN StatusBody.tally /\ StatusBody.tally[k] = 0
              /\ StatusBody.active = TRUE
              /\ StatusBody.options = reply.body.options

\* effects[i] is the 'ended' message of session s with the given reason
C12_EndedAt(fx, i, s, reason) ==
    /\ fx[i].call = "publish"
    /\ IsEnded(fx[i])
    /\ fx[i].reason = reason
    /\ fx[i].sessionId = s.id
    /\ fx[i].tally = s.tally

(***************************************************************************)
(* C12: when a shutdown signal finds an active session, shutdown publishes *)
(* that session's 'ended' message with reason 'shutdown' before the first  *)
(* close of a transport, and closes all four transports after it; after    *)
(* shutdown the current session is inactive.                               *)
(***************************************************************************)
C12_EndedBeforeClose ==
    [][nSignals' # nSignals =>
          /\ HasSession => currentSession' # Null /\ ~currentSession'.active
          /\ HasSession /\ currentSession.active =>
                \E i \in (Len(effects) + 1)..Len(effects') :
                    /\ C12_EndedAt(effects', i, currentSession, "shutdown")
                    /\ \A j \in 1..Len(effects') :
                          effects'[j].call = "close" => j > i
                    /\ {effects'[j].topic : j \in (i + 1)..Len(effects')}
                          = Range(Transports)]_vars

\* shutdown has closed a session that was active and held votes
C12_Witness ==
    /\ nSignals = 1
    /\ open = {}
    /\ HasSession
    /\ ~currentSession.active
    /\ currentSession.votes # EmptyObject
    /\ Cardinality(EndedOf(currentSession.obj)) = 1
    /\ \A i \in EndedOf(currentSession.obj) : Published[i].reason = "shutdown"

\* every 'ended' message with reason 'time_up' of the current session was
\* published with the clock at or past the session's endAt (the clock never
\* goes back)
C13_TimeUpDue ==
    HasSession =>
        \A i \in EndedOf(currentSession.obj) :
            Published[i].reason = "time_up" => now >= currentSession.endAt

\* the timers of earlier sessions whose callback ran in this step
C13_StaleFired ==
    IF HasSession THEN {t \in timers \ timers' : t.h # currentSession.obj} ELSE {}

(***************************************************************************)
(* C13: a session is closed with reason 'time_up' only with the clock at   *)
(* or past its own endAt, and the firing of a timer armed for an earlier,  *)
(* superseded session neither closes the current session nor publishes     *)
(* anything.                                                               *)
(***************************************************************************)
C13_OwnTimerOnly ==
    [][/\ C13_TimeUpDue'
       /\ C13_StaleFired # {} =>
             /\ currentSession' = currentSession
             /\ effects' = effects]_vars

\* the current session is closed
C14_Closed == HasSession /\ ~currentSession.active

\* the tally every 'ended' message of the closed current session carries is
\* the tally GET /api/status and GET /api/results answer with
C14_EndedTallyKept ==
    C14_Closed =>
        \A i \in EndedOf(currentSession.obj) :
            /\ Published[i].tally = StatusBody.tally
            /\ Published[i].tally = ResultsBody.tally
            /\ reply.via \in {"status", "results"} => reply.body.tally = Published[i].tally

(***************************************************************************)
(* C14: a session's active flag never goes back from false to true, a      *)
(* closed session's ledger and tally never change, and the tally of its    *)
(* 'ended' message is the tally every later status and results answer      *)
(* carries while it is the current session.                                *)
(***************************************************************************)
C14_ClosedStaysClosed ==
    [][/\ C14_Closed /\ currentSession'.obj = currentSession.obj =>
             /\ ~currentSession'.active
             /\ currentSession'.votes = currentSession.votes
             /\ currentSession'.tally = currentSession.tally
       /\ C14_EndedTallyKept']_vars

\* a closed session that holds votes, and whose 'ended' message is out, has
\* just answered a status or results request
C14_Witness ==
    /\ C14_Closed
    /\ currentSession.votes # EmptyObject
    /\ EndedOf(currentSession.obj) # {}
    /\ reply.via \in {"status", "results"}
    /\ reply.body.active = FALSE
    /\ reply.body.tally = currentSession.tally

\* positions in Published of the tally messages built from session object o
C15_TallyOf(o) ==
    {i \in 1..Len(Published) : IsTally(Published[i]) /\ Published[i].obj = o}

(***************************************************************************)
(* C15: for every session id the first message published with it is        *)
(* 'started'; over the successive tally messages with one id totalVotes    *)
(* never decreases; and the totalVotes of a tally message is the sum of    *)
(* the counts it carries and the size of the ledger when it was published. *)
(***************************************************************************)
C15_EventOrder ==
    /\ \A i \in 1..Len(Published) :
          (\A j \in 1..(i - 1) : Published[j].sessionId # Published[i].sessionId)
              => IsStarted(Published[i])
    /\ \A i, j \in 1..Len(Published) :
          /\ i < j
          /\ IsTally(Published[i])
          /\ IsTally(Published[j])
          /\ Published[i].sessionId = Published[j].sessionId
          => Published[i].totalVotes <= Published[j].totalVotes
    /\ \A i \in 1..Len(Published) :
          IsTally(Published[i]) => Published[i].totalVotes = TallySum(Published[i].tally)
    /\ HasSession =>
          \A i \in C15_TallyOf(currentSession.obj) :
              (\A j \in C15_TallyOf(currentSession.obj) : j <= i)
                  => Published[i].totalVotes = Cardinality(DOMAIN currentSession.votes)

(***************************************************************************)
(* C16: the options of the current session, and of every session ever      *)
(* started, are at least two and pairwise distinct.                        *)
(***************************************************************************)
C16_OptionsDistinct ==
    /\ HasSession =>
          /\ Len(currentSession.options) >= 2
          /\ \A i, j \in 1..Len(currentSession.options) :
                i # j => currentSession.options[i] # currentSession.options[j]
    /\ \A m \in 1..Len(Published) :
          IsStarted(Published[m]) =>
              \A i, j \in 1..Len(Published[m].options) :
                  i # j => Published[m].options[i] # Published[m].options[j]

(***************************************************************************)
(* C17: GET /api/status and GET /api/results change nothing: the current   *)
(* session with all its fields, the pending timers and the published       *)
(* messages stay as they were.  With no session the status answer is       *)
(* {active: false} and the results answer {active: false, tally: {}}.      *)
(***************************************************************************)
C17_ReadsArePure ==
    [][reply'.via \in {"status", "results"} =>
          /\ UNCHANGED <<currentSession, timers, effects, open, now>>
          /\ reply'.status = 200
          /\ ~HasSession /\ reply'.via = "status" =>
                reply'.body = [active |-> FALSE]
          /\ ~HasSession /\ reply'.via = "results" =>
                reply'.body = [active |-> FALSE, tally |-> EmptyObject]]_vars

\* a status request was just answered by a session that holds votes, is past
\* its endAt and is still active, its timer pending
C17_Witness ==
    /\ reply.via = "status"
    /\ HasSession
    /\ currentSession.active
    /\ now >= currentSession.endAt
    /\ currentSession.votes # EmptyObject
    /\ \E t \in timers : t.h = currentSession.timer
    /\ reply.body.active = TRUE

(***************************************************************************)
(* C18: endSession called when no session was ever started does nothing:   *)
(* it publishes no message, arms and cancels no timer, and leaves          *)
(* currentSession null.  (shutdown is the caller that can find no          *)
(* session.)                                                               *)
(***************************************************************************)
C18_EndWithoutSessionNoOp ==
    [][~HasSession /\ nSessions = 0 /\ nSignals' # nSignals =>
          /\ currentSession' = Null
          /\ timers' = timers
          /\ Published' = Published]_vars

\* shutdown has run with no session ever started
C18_Witness ==
    /\ nSignals = 1
    /\ nSessions = 0
    /\ ~HasSession
    /\ Published = <<>>
    /\ Len(effects) = Len(Transports)
====
